---- MODULE Spec2Model ----
(***************************************************************************)
(* A model of the macroscript interpreter: the scanner and unescape of     *)
(* parsing.rs, the rewrite engine apply_macros of execution.rs with its    *)
(* try stack and variable store, the handlers of stdlib.rs that the engine *)
(* is exercised with, and the text macro expander of textmacro.rs.         *)
(*                                                                         *)
(* Spec runs apply_macros on an input and a registry, ParseSpec applies    *)
(* the escape handler and unescape in a row to one string, and TextSpec    *)
(* runs TextMacro::apply on a pattern and a list of arguments.             *)
(*                                                                         *)
(* A Rust string is modelled as a sequence of one-character strings; every *)
(* character of the model is one byte long, so a byte offset of the source *)
(* is an index of the sequence (0-based offsets, 1-based TLA+ indices).    *)
(***************************************************************************)
EXTENDS Integers, Sequences, FiniteSets, TLC

VARIABLES pc, try_stack, input, range, macro_range, variables, result, src, macros, last,
          calls, lastStore, present,
          trail, steps, answer,
          pattern, tm_arguments, target, passed, subs, none_found, tm_pc, returned, site

vars == <<pc, try_stack, input, range, macro_range, variables, result, src, macros, last,
          calls, lastStore, present,
          trail, steps, answer,
          pattern, tm_arguments, target, passed, subs, none_found, tm_pc, returned, site>>

\* The state of a call of TextMacro::apply
text_vars == <<pattern, tm_arguments, target, passed, subs, none_found, tm_pc, returned, site>>

\* The state of the exercise of the functions of parsing.rs
parse_vars == <<trail, steps, answer>>

(***************************************************************************)
(* Bounds of the model.                                                    *)
(***************************************************************************)
\* longest input drawn from the raw alphabet
MaxRawLen == 4
\* most invocations in an input without a try
MaxItems == 3
\* most items in the body of a try
MaxBody == 2
\* most functions applied in a row to one string
MaxSteps == 2
\* longest pattern of a text macro
MaxPatLen == 4
MaxCalls == 8

(***************************************************************************)
(* Strings.                                                                *)
(***************************************************************************)
BS == "\\"

Digits == <<"0", "1", "2", "3", "4", "5", "6", "7", "8", "9">>

\* usize formatted with {} : decimal, no padding
RECURSIVE to_string(_)
to_string(n) ==
    IF n < 10 THEN <<Digits[n + 1]>>
    ELSE to_string(n \div 10) \o <<Digits[(n % 10) + 1]>>

\* The concatenation of parts[lo..hi]
RECURSIVE concat_range(_, _, _)
concat_range(parts, lo, hi) ==
    IF lo > hi THEN <<>>
    ELSE IF lo = hi THEN parts[lo]
    ELSE concat_range(parts, lo, (lo + hi) \div 2) \o concat_range(parts, (lo + hi) \div 2 + 1, hi)

\* [String]::concat
concat(parts) == concat_range(parts, 1, Len(parts))

\* str::replace for a one-character pattern
replace(s, pat, with) ==
    concat([i \in 1..Len(s) |-> IF s[i] = pat THEN with ELSE <<s[i]>>])

\* [&str]::join
RECURSIVE join(_, _)
join(parts, sep) ==
    IF parts = <<>> THEN <<>>
    ELSE IF Len(parts) = 1 THEN parts[1]
    ELSE parts[1] \o sep \o join(Tail(parts), sep)

\* A half-open byte range start..end
Range(s, e) == [start |-> s, end |-> e]

NoRange == Range(-1, -1)

\* &s[range]
Slice(s, r) == SubSeq(s, r.start + 1, r.end)

\* String::replace_range panics unless start <= end <= len
RangeOk(s, r) == 0 <= r.start /\ r.start <= r.end /\ r.end <= Len(s)

replace_range(s, r, with) ==
    SubSeq(s, 1, r.start) \o with \o SubSeq(s, r.end + 1, Len(s))

(***************************************************************************)
(* parsing.rs                                                              *)
(***************************************************************************)
\* A for loop over string.char_indices(): the loop body is folded over the
\* byte offsets lo .. hi-1 in increasing order, starting in state st: first
\* over the lower half of the offsets, then over the upper half from the state
\* the lower half ends in. A state holds the local variables of the loop.

\* find_innermost_brackets: the body of the loop; returned says that the
\* function has returned, ret is the value it returned

\* The escape flag is ignored
fib_body_unescaped(st, idx, chr) ==
    IF st.returned THEN st
    ELSE IF chr = "[" THEN [st EXCEPT !.start = idx]
    ELSE IF chr = "]" /\ st.start # -1
    THEN [st EXCEPT !.returned = TRUE, !.ret = Range(st.start, idx + 1)]
    ELSE st

\* A ] with no [ before it ends the search
fib_body_gives_up(st, idx, chr) ==
    IF st.returned THEN st
    ELSE IF st.last_escaped THEN [st EXCEPT !.last_escaped = FALSE]
    ELSE IF chr = "[" THEN [st EXCEPT !.last_escaped = (chr = BS), !.start = idx]
    ELSE IF chr = "]" /\ st.start # -1
    THEN [st EXCEPT !.returned = TRUE, !.ret = Range(st.start, idx + 1)]
    ELSE IF chr = "]" THEN [st EXCEPT !.returned = TRUE]
    ELSE [st EXCEPT !.last_escaped = (chr = BS)]

\* The range starts at the first [ of the source, not at the latest
fib_body_outermost(st, idx, chr) ==
    IF st.returned THEN st
    ELSE IF st.last_escaped THEN [st EXCEPT !.last_escaped = FALSE]
    ELSE IF chr = "[" THEN [st EXCEPT !.last_escaped = (chr = BS),
                                      !.start = IF st.start = -1 THEN idx ELSE st.start]
    ELSE IF chr = "]" /\ st.start # -1
    THEN [st EXCEPT !.returned = TRUE, !.ret = Range(st.start, idx + 1)]
    ELSE [st EXCEPT !.last_escaped = (chr = BS)]

\* The range returned ends before the closing bracket
fib_body_short(st, idx, chr) ==
    IF st.returned THEN st
    ELSE IF st.last_escaped THEN [st EXCEPT !.last_escaped = FALSE]
    ELSE IF chr = "[" THEN [st EXCEPT !.last_escaped = (chr = BS), !.start = idx]
    ELSE IF chr = "]" /\ st.start # -1
    THEN [st EXCEPT !.returned = TRUE, !.ret = Range(st.start, idx)]
    ELSE [st EXCEPT !.last_escaped = (chr = BS)]

\* The character after an escaped backslash is taken for escaped too
fib_body_chained(st, idx, chr) ==
    IF st.returned THEN st
    ELSE IF st.last_escaped THEN [st EXCEPT !.last_escaped = (chr = BS)]
    ELSE IF chr = "[" THEN [st EXCEPT !.last_escaped = (chr = BS), !.start = idx]
    ELSE IF chr = "]" /\ st.start # -1
    THEN [st EXCEPT !.returned = TRUE, !.ret = Range(st.start, idx + 1)]
    ELSE [st EXCEPT !.last_escaped = (chr = BS)]

fib_body(st, idx, chr) ==
    IF st.returned THEN st
    ELSE IF st.last_escaped THEN [st EXCEPT !.last_escaped = FALSE]
    ELSE IF chr = "[" THEN [st EXCEPT !.last_escaped = (chr = BS), !.start = idx]
    ELSE IF chr = "]" /\ st.start # -1
    THEN [st EXCEPT !.returned = TRUE, !.ret = Range(st.start, idx + 1)]
    ELSE [st EXCEPT !.last_escaped = (chr = BS)]

RECURSIVE fib_loop(_, _, _, _)
fib_loop(string, st, lo, hi) ==
    IF lo >= hi THEN st
    ELSE IF hi = lo + 1 THEN fib_body(st, lo, string[lo + 1])
    ELSE LET mid == (lo + hi) \div 2
             left == fib_loop(string, st, lo, mid)
         IN  IF left.returned THEN left ELSE fib_loop(string, left, mid, hi)

find_innermost_brackets(string) ==
    fib_loop(string,
             [last_escaped |-> FALSE, start |-> -1, returned |-> FALSE, ret |-> NoRange],
             0, Len(string)).ret

\* Every slash splits, escaped or not
split_body_unescaped(st, idx, char) ==
    IF char = "/"
    THEN [st EXCEPT !.argument_spans = Append(@, Range(st.old_start, idx)),
                    !.old_start = idx + 1]
    ELSE st

\* split_arguments: the body of the loop
split_body(st, idx, char) ==
    IF st.last_escaped THEN [st EXCEPT !.last_escaped = FALSE]
    ELSE IF char = "/"
    THEN [st EXCEPT !.last_escaped = (char = BS),
                    !.argument_spans = Append(@, Range(st.old_start, idx)),
                    !.old_start = idx + 1]
    ELSE [st EXCEPT !.last_escaped = (char = BS)]

RECURSIVE split_loop(_, _, _, _)
split_loop(inside, st, lo, hi) ==
    IF lo >= hi THEN st
    ELSE IF hi = lo + 1 THEN split_body(st, lo, inside[lo + 1])
    ELSE LET mid == (lo + hi) \div 2
             left == split_loop(inside, st, lo, mid)
         IN  IF left = st THEN split_loop(inside, st, mid, hi)
             ELSE split_loop(inside, left, mid, hi)

split_arguments(inside) ==
    LET st == split_loop(inside,
                         [last_escaped |-> FALSE, old_start |-> 0, argument_spans |-> <<>>],
                         0, Len(inside))
        argument_spans == Append(st.argument_spans, Range(st.old_start, Len(inside)))
        rest == Tail(argument_spans)
    IN  [name |-> Slice(inside, Head(argument_spans)),
         arguments |-> [i \in 1..Len(rest) |-> Slice(inside, rest[i])]]

\* Every backslash is dropped, escaped or not
unescape_body_greedy(original, st, idx, char) ==
    IF char = BS
    THEN [st EXCEPT !.string = IF ~st.found_escape THEN @ \o SubSeq(original, 1, idx) ELSE @,
                    !.found_escape = TRUE,
                    !.last_escape = TRUE]
    ELSE IF ~st.found_escape THEN st
    ELSE [st EXCEPT !.last_escape = FALSE, !.string = Append(@, char)]

\* unescape: the body of the loop
unescape_body(original, st, idx, char) ==
    IF ~st.last_escape /\ char = BS
    THEN [st EXCEPT !.string = IF ~st.found_escape THEN @ \o SubSeq(original, 1, idx) ELSE @,
                    !.found_escape = TRUE,
                    !.last_escape = TRUE]
    ELSE IF ~st.found_escape THEN st
    ELSE [st EXCEPT !.last_escape = FALSE, !.string = Append(@, char)]

RECURSIVE unescape_loop(_, _, _, _)
unescape_loop(original, st, lo, hi) ==
    IF lo >= hi THEN st
    ELSE IF hi = lo + 1 THEN unescape_body(original, st, lo, original[lo + 1])
    ELSE LET mid == (lo + hi) \div 2
             left == unescape_loop(original, st, lo, mid)
         IN  IF left = st THEN unescape_loop(original, st, mid, hi)
             ELSE unescape_loop(original, left, mid, hi)

unescape(original) ==
    LET st == unescape_loop(original,
                            [found_escape |-> FALSE, last_escape |-> FALSE, string |-> <<>>],
                            0, Len(original))
    IN  IF st.found_escape THEN st.string ELSE original

\* The MacroRange of Option<MacroRange>; None has range NoRange
NoPair == [range |-> NoRange, name |-> <<>>, arguments |-> <<>>]

\* What find_innermost_brackets or split_arguments returned for the string of;
\* NoAnswer when neither was called
NoAnswer == [op |-> "none", of |-> <<>>, range |-> NoRange, name |-> <<>>, arguments |-> <<>>]

\* The arguments are unescaped twice
find_pair_twice(source) ==
    LET r == find_innermost_brackets(source) IN
    IF r = NoRange THEN NoPair
    ELSE LET inside == SubSeq(source, r.start + 2, r.end - 1)
             split == split_arguments(inside)
         IN  [range |-> r,
              name |-> unescape(split.name),
              arguments |-> [i \in 1..Len(split.arguments) |->
                                unescape(unescape(split.arguments[i]))]]

find_pair(source) ==
    LET r == find_innermost_brackets(source) IN
    IF r = NoRange THEN NoPair
    ELSE LET inside == SubSeq(source, r.start + 2, r.end - 1)
             split == split_arguments(inside)
         IN  [range |-> r,
              name |-> unescape(split.name),
              arguments |-> [i \in 1..Len(split.arguments) |-> unescape(split.arguments[i])]]

(***************************************************************************)
(* execution.rs: errors                                                    *)
(***************************************************************************)
NotEnoughArguments(expected, found) ==
    [kind |-> "NotEnoughArguments", expected |-> expected, found |-> found, message |-> <<>>]

\* The kind raised for a name that is not registered is a User error
Nonexistent_as_user ==
    [kind |-> "User", expected |-> 0, found |-> 0, message |-> <<>>]

Nonexistent ==
    [kind |-> "Nonexistent", expected |-> 0, found |-> 0, message |-> <<>>]

User(message) ==
    [kind |-> "User", expected |-> 0, found |-> 0, message |-> message]

MacroError(name, r, error_type) ==
    [name |-> name, error_type |-> error_type, range |-> r]

NoError == MacroError(<<>>, NoRange, [kind |-> "None", expected |-> 0, found |-> 0, message |-> <<>>])

\* impl Display for MacroErrorKind
DisplayKind(k) ==
    IF k.kind = "NotEnoughArguments"
    THEN <<"e", "x", "p", "e", "c", "t", "e", "d", " ">> \o to_string(k.expected) \o <<" ", "a", "r", "g", "u", "m", "e", "n", "t", "s", ",", " ", "f", "o", "u", "n", "d", " ">> \o to_string(k.found)
    ELSE IF k.kind = "Nonexistent"
    THEN <<"n", "o", "t", " ", "f", "o", "u", "n", "d">>
    ELSE k.message

\* impl Debug for Range<usize>
DebugRange(r) == to_string(r.start) \o <<".", ".">> \o to_string(r.end)

\* impl Display for MacroError
DisplayError(e) ==
    <<"e", "r", "r", "o", "r", " ", "i", "n", " ", "m", "a", "c", "r", "o", " ">> \o e.name \o <<" ", "a", "t", " ", "r", "a", "n", "g", "e", " ">> \o DebugRange(e.range)
        \o <<":", " ">> \o DisplayKind(e.error_type)

\* The failure token of throw_error!
FailureToken(err) ==
    <<"f", "a", "l", "s", "e", "/">> \o replace(replace(replace(DisplayError(err), BS, <<BS, BS>>),
                                  "[", <<BS, "[">>), "]", <<BS, "]">>)

\* The success token of a finished try body
SuccessToken(buf) == <<"t", "r", "u", "e", "/">> \o buf

\* The message of the load arm
LoadMessage(name) == <<"v", "a", "r", "i", "a", "b", "l", "e", " ">> \o name \o <<" ", "d", "o", "e", "s", " ", "n", "o", "t", " ", "c", "u", "r", "r", "e", "n", "t", "l", "y", " ", "e", "x", "i", "s", "t">>

(***************************************************************************)
(* stdlib.rs: the handlers of the registry                                 *)
(***************************************************************************)
Ok(value) == [ok |-> TRUE, value |-> value, err |-> NoError]

Err(e) == [ok |-> FALSE, value |-> <<>>, err |-> e]

\* macro Comment as ""
Comment(r, arguments) == Ok(<<>>)

\* macro Error as "error"
Error(r, arguments) ==
    Err(MacroError(<<"e", "r", "r", "o", "r">>, r,
                   User(IF arguments = <<>> THEN <<"n", "o", " ", "r", "e", "a", "s", "o", "n", " ", "g", "i", "v", "e", "n">> ELSE arguments[1])))

\* macro Unescape as "unescape"
Unescape(r, arguments) ==
    IF arguments = <<>>
    THEN Err(MacroError(<<"u", "n", "e", "s", "c", "a", "p", "e">>, r, NotEnoughArguments(1, 0)))
    ELSE Ok(unescape(arguments[1]))

\* macro Escape as "escape"
\* The backslash itself is not escaped
EscapeText_keeps_backslash(raw) ==
    replace(replace(replace(raw, "/", <<BS, "/">>), "[", <<BS, "[">>), "]", <<BS, "]">>)

EscapeText(raw) ==
    replace(replace(replace(replace(raw, BS, <<BS, BS>>), "/", <<BS, "/">>),
                    "[", <<BS, "[">>), "]", <<BS, "]">>)

Escape(r, arguments) == Ok(EscapeText(join(arguments, <<"/">>)))

\* Macro::apply, dispatched on the handler object
apply(mac, r, arguments) ==
    CASE mac = "Comment" -> Comment(r, arguments)
      [] mac = "Error" -> Error(r, arguments)
      [] mac = "Unescape" -> Unescape(r, arguments)
      [] mac = "Escape" -> Escape(r, arguments)

\* stdlib::add, restricted to the handlers above
Stdlib ==
    [n \in {<<>>, <<"e", "r", "r", "o", "r">>, <<"u", "n", "e", "s", "c", "a", "p", "e">>, <<"e", "s", "c", "a", "p", "e">>} |->
        CASE n = <<>> -> "Comment"
          [] n = <<"e", "r", "r", "o", "r">> -> "Error"
          [] n = <<"u", "n", "e", "s", "c", "a", "p", "e">> -> "Unescape"
          [] n = <<"e", "s", "c", "a", "p", "e">> -> "Escape"]

EmptyRegistry == [n \in {} |-> "Comment"]

Registries == {EmptyRegistry, Stdlib}

(***************************************************************************)
(* The variable store: HashMap<String, String>                             *)
(***************************************************************************)
EmptyMap == [n \in {} |-> <<>>]

contains_key(m, k) == k \in DOMAIN m

\* An existing value is kept
insert_keeps(m, k, v) == [n \in DOMAIN m \cup {k} |-> IF n \in DOMAIN m THEN m[n] ELSE v]

insert(m, k, v) == [n \in DOMAIN m \cup {k} |-> IF n = k THEN v ELSE m[n]]

\* Every entry is removed
remove_all(m, k) == [n \in {} |-> m[n]]

remove(m, k) == [n \in DOMAIN m \ {k} |-> m[n]]

\* An existing value is overwritten
or_insert_overwrites(m, k, v) == insert(m, k, v)

\* entry(k).or_insert(v)
or_insert(m, k, v) == IF contains_key(m, k) THEN m ELSE insert(m, k, v)

(***************************************************************************)
(* textmacro.rs: TextMacro::apply                                          *)
(*                                                                         *)
(* The character U+FFFF that stands for an escaped $ is three bytes long:  *)
(* it is modelled as the three elements of Sentinel, so that the byte      *)
(* offsets of the code are the indices of the model here too.              *)
(*                                                                         *)
(* tm_pc = "protect" apply has cloned the pattern into target (line 97)    *)
(* tm_pc = "collect" at the head of the while loop (line 103)              *)
(* tm_pc = "replace" in the loop over subs.drain(..) (line 124)            *)
(* tm_pc = "restore" the while loop has ended (line 138)                   *)
(* tm_pc = "done"    apply has returned returned                           *)
(* tm_pc = "panic"   a replace_range was out of bounds or off a character  *)
(*                   boundary                                              *)
(*                                                                         *)
(* site records what the latest step did.                                  *)
(***************************************************************************)
Sentinel == <<"xEF", "xBF", "xBF">>

\* str::replace for a pattern of the two characters a b
RECURSIVE replace_pair(_, _, _, _)
replace_pair(s, a, b, with) ==
    IF Len(s) < 2 THEN s
    ELSE IF s[1] = a /\ s[2] = b THEN with \o replace_pair(SubSeq(s, 3, Len(s)), a, b, with)
    ELSE <<s[1]>> \o replace_pair(Tail(s), a, b, with)

\* target.replace('\u{FFFF}', "$")
restore(s) ==
    concat([i \in 1..Len(s) |-> IF s[i] = "xEF" THEN <<"$">>
                                ELSE IF s[i] = "xBF" THEN <<>> ELSE <<s[i]>>])

\* str::is_char_boundary
is_char_boundary(s, index) ==
    \/ index = 0
    \/ index = Len(s)
    \/ index < Len(s) /\ s[index + 1] # "xBF"

\* String::replace_range panics unless the range is in bounds and on boundaries
TextRangeOk(s, r) == RangeOk(s, r) /\ is_char_boundary(s, r.start) /\ is_char_boundary(s, r.end)

is_ascii_digit(c) == c \in {"0", "1", "2", "3", "4", "5", "6", "7", "8", "9"}

\* usize::from_str of a run of digits
RECURSIVE from_str(_)
from_str(digits) ==
    IF digits = <<>> THEN 0
    ELSE 10 * from_str(SubSeq(digits, 1, Len(digits) - 1))
         + (CHOOSE d \in 0..9 : Digits[d + 1] = digits[Len(digits)])

\* after_index.find(|c| !c.is_ascii_digit()).unwrap_or(after_index.len())
RECURSIVE digits_end(_)
digits_end(after_index) ==
    IF after_index = <<>> \/ ~is_ascii_digit(after_index[1]) THEN 0
    ELSE 1 + digits_end(Tail(after_index))

\* enum Substring
Count == [kind |-> "Count", index |-> 0]

Index(n) == [kind |-> "Index", index |-> n]

NoSub == [range |-> NoRange, sub |-> [kind |-> "None", index |-> 0]]

\* A numbered site is pushed whatever the number of arguments
sub_at_unfiltered(string, idx, args) ==
    LET after_index == SubSeq(string, idx + 2, Len(string)) IN
    IF after_index = <<>> THEN NoSub
    ELSE IF after_index[1] = "#"
    THEN LET end == idx + 2 IN [range |-> Range(idx, idx + end), sub |-> Count]
    ELSE IF after_index[1] = "0"
    THEN LET end == idx + 2 IN [range |-> Range(idx, idx + end), sub |-> Index(0)]
    ELSE IF is_ascii_digit(after_index[1])
    THEN LET end == digits_end(after_index)
             index == from_str(SubSeq(after_index, 1, end))
         IN  [range |-> Range(idx, idx + (end + 1)), sub |-> Index(index)]
    ELSE NoSub

\* The body of the loop over rmatch_indices('$'): what is pushed for the $ at
\* idx, NoSub when the loop continues without a push
sub_at(string, idx, args) ==
    LET after_index == SubSeq(string, idx + 2, Len(string)) IN
    IF after_index = <<>> THEN NoSub
    ELSE IF after_index[1] = "#"
    THEN LET end == idx + 2 IN [range |-> Range(idx, idx + end), sub |-> Count]
    ELSE IF after_index[1] = "0"
    THEN LET end == idx + 2 IN [range |-> Range(idx, idx + end), sub |-> Index(0)]
    ELSE IF is_ascii_digit(after_index[1])
    THEN LET end == digits_end(after_index)
             index == from_str(SubSeq(after_index, 1, end))
         IN  IF Len(args) >= index
             THEN [range |-> Range(idx, idx + (end + 1)), sub |-> Index(index)]
             ELSE NoSub
    ELSE NoSub

\* The vector subs after the loop over rmatch_indices('$'): from back to front
collect(string, args) ==
    LET found == {idx \in 0..(Len(string) - 1) :
                     string[idx + 1] = "$" /\ sub_at(string, idx, args) # NoSub}
    IN  [k \in 1..Cardinality(found) |->
            sub_at(string, CHOOSE idx \in found : Cardinality({j \in found : j >= idx}) = k,
                   args)]

NoSite == [op |-> "init", before |-> <<>>, range |-> NoRange, sub |-> NoSub.sub, repl |-> <<>>]

\* TextMacro::apply is not running
TextIdle ==
    /\ pattern = <<>>
    /\ tm_arguments = <<>>
    /\ target = <<>>
    /\ passed = <<>>
    /\ subs = <<>>
    /\ none_found = FALSE
    /\ tm_pc = "idle"
    /\ returned = Ok(<<>>)
    /\ site = NoSite

(***************************************************************************)
(* Inputs of apply_macros                                                  *)
(***************************************************************************)
\* The names of the core macros (the match arms of apply_macros)
s_try == <<"t", "r", "y">>
s_load == <<"l", "o", "a", "d">>
s_drop == <<"d", "r", "o", "p">>
s_store == <<"s", "t", "o", "r", "e">>
s_get == <<"g", "e", "t">>
s_is_stored == <<"i", "s", "_", "s", "t", "o", "r", "e", "d">>

\* The text of an invocation
Inv(name, args) == <<"[">> \o join(<<name>> \o args, <<"/">>) \o <<"]">>

\* A try invocation with its body escaped once, as in the examples of stdlib.rs
TryInv(body) == Inv(s_try, <<EscapeText(body)>>)

\* A try invocation with its body escaped twice
TryInv2(body) == Inv(s_try, <<EscapeText(EscapeText(body))>>)

RECURSIVE SeqsUpTo(_, _)
SeqsUpTo(S, n) ==
    IF n = 0 THEN {<<>>}
    ELSE LET shorter == SeqsUpTo(S, n - 1)
         IN  shorter \cup {Append(s, x) : s \in shorter, x \in S}

RawAlphabet == {"[", "]", "/", BS, "x"}

RawInputs == SeqsUpTo(RawAlphabet, MaxRawLen)

\* The sources of bracket_test
TestSources ==
    { <<"[", "a", "[", "b", "[", "c", "[", "d", "]", "c", "]", "[", "e", "]", "b", "]", "a", "]">>, <<"\\", "[", "[", "]", "\\", "]">>, <<"[", "[", "\\", "]", "[", "]">>, <<"o", "n", "l", "y", " ", "o", "p", "e", "n", " ", "[", "[", "[", " ", "\\", "]">>,
      <<"[", " ", "n", "o", " ", "c", "l", "o", "s", "e", " ", "\\", "]", "\\", "]">> }

TopAtoms ==
    { <<"a">>,
      Inv(s_store, << <<"x">>, <<"b">> >>),
      Inv(s_store, << <<"x">>, <<"c">> >>),
      Inv(s_load, << <<"x">> >>),
      Inv(s_drop, << <<"x">> >>),
      Inv(s_get, << <<"x">>, <<"d">> >>),
      Inv(s_is_stored, << <<"x">> >>) }

BodyAtoms ==
    { <<"a">>, <<"[">>, <<"]">>,
      Inv(s_store, << <<"x">>, <<"c">> >>),
      Inv(s_store, << <<"x">> >>),
      Inv(s_load, << <<"x">> >>),
      Inv(s_load, <<>>),
      Inv(s_get, << <<"x">>, <<"d">> >>),
      Inv(<<"e", "r", "r", "o", "r">>, << <<"m">> >>),
      Inv(<<"z", "z">>, <<>>) }

FlatInputs == {concat(s) : s \in SeqsUpTo(TopAtoms, MaxItems)}

FlatBodies == {concat(s) : s \in SeqsUpTo(BodyAtoms, MaxBody)}

InnerBodies ==
    { <<"a">>, Inv(s_load, << <<"x">> >>), Inv(s_load, <<>>), Inv(s_store, << <<"x">>, <<"c">> >>) }

NestPads == {<<>>, <<"a">>}

NestedBodies ==
    {p \o t \o q : p \in NestPads, q \in NestPads,
                   t \in {TryInv(b) : b \in InnerBodies} \cup {TryInv2(b) : b \in InnerBodies}}

\* Bodies whose errors carry a bracket in their text
BracketBodies == {Inv(s_load, << <<"\\", "]">> >>), Inv(<<"\\", "[">>, <<>>)}

Pads == {<<>>, <<"a">>, Inv(s_store, << <<"x">>, <<"b">> >>), Inv(s_load, << <<"x">> >>)}

TryInputs ==
    {p \o t \o q : p \in Pads, q \in Pads,
                   t \in {TryInv(b) : b \in FlatBodies \cup NestedBodies}
                         \cup {TryInv2(b) : b \in NestedBodies \cup BracketBodies}}

\* Invocations of the store macros on two names
StoreAtoms ==
    { Inv(s_store, << <<"x">>, <<"b">> >>),
      Inv(s_store, << <<"y">>, <<"c">> >>),
      Inv(s_get, << <<"y">>, <<"d">> >>),
      Inv(s_drop, << <<"x">> >>),
      Inv(s_drop, << <<"y">> >>),
      Inv(s_is_stored, << <<"x">> >>),
      Inv(s_is_stored, << <<"y">> >>) }

StoreInputs == {concat(s) : s \in SeqsUpTo(StoreAtoms, MaxItems)}

\* Invocations whose raw name is close to a core name or to a registered name,
\* or is such a name with a backslash in it
NearNames ==
    { <<"L", "o", "a", "d">>, <<"l", "o", "a", "d", " ">>, <<"l", "o", "a">>, <<"E", "r", "r", "o", "r">>, <<"e", "r", "r", "o">>, <<"e", "s", "c", "a", "p", "e", "e">>, <<"l", "o", "\\", "a", "d">>, <<"\\", "e", "r", "r", "o", "r">>,
      <<"\\", "\\", "l", "o", "a", "d">> }

NameInputs == {p \o Inv(n, << <<"x">> >>) : p \in {<<>>, Inv(s_store, << <<"x">>, <<"b">> >>)},
                                         n \in NearNames}

\* Invocations of the registered handlers with escaped text in their arguments
HandlerAtoms ==
    { <<"[", "e", "s", "c", "a", "p", "e", "/", "a", "\\", "/", "b", "/", "\\", "\\", "c", "]">>,
      <<"[", "e", "s", "c", "\\", "a", "p", "e", "/", "\\", "[", "/", "\\", "]", "]">>,
      <<"[", "u", "n", "e", "s", "c", "a", "p", "e", "/", "\\", "\\", "\\", "[", "x", "\\", "\\", "\\", "]", "]">>,
      <<"[", "u", "n", "e", "s", "c", "a", "p", "e", "/", "\\", "[", "g", "e", "t", "\\", "/", "y", "\\", "/", "d", "\\", "]", "]">>,
      <<"[", "u", "n", "e", "s", "c", "a", "p", "e", "/", "\\", "[", "l", "o", "a", "d", "\\", "/", "x", "\\", "]", "/", "2", "]">>,
      <<"[", "u", "n", "e", "s", "c", "a", "p", "e", "]">>,
      <<"[", "e", "r", "r", "o", "r", "/", "\\", "[", "m", "\\", "]", "]">>,
      <<"[", "e", "r", "r", "o", "r", "]">>,
      <<"[", "/", "\\", "\\", "/", "\\", "/", "]">> }

HandlerInputs == {p \o h \o q : p \in {<<>>, Inv(s_store, << <<"x">>, <<"b">> >>)},
                                h \in HandlerAtoms, q \in {<<>>, <<"a">>}}

\* Invocations nested in the arguments of others, and stored text that holds
\* an invocation
NestingInputs ==
    { <<"[", "s", "t", "o", "r", "e", "/", "x", "/", "[", "g", "e", "t", "/", "y", "/", "d", "]", "]", "[", "l", "o", "a", "d", "/", "x", "]">>,
      <<"[", "g", "e", "t", "/", "x", "/", "[", "s", "t", "o", "r", "e", "/", "x", "/", "b", "]", "d", "]", "[", "l", "o", "a", "d", "/", "x", "]">>,
      <<"[", "s", "t", "o", "r", "e", "/", "[", "g", "e", "t", "/", "y", "/", "x", "]", "/", "c", "]", "[", "i", "s", "_", "s", "t", "o", "r", "e", "d", "/", "x", "]">>,
      <<"a", "[", "l", "o", "a", "d", "/", "[", "s", "t", "o", "r", "e", "/", "x", "/", "b", "]", "x", "]", "[", "d", "r", "o", "p", "/", "x", "]">>,
      <<"[", "[", "]", "/", "[", "]", "]", "[", "]">>,
      <<"[", "s", "t", "o", "r", "e", "/", "x", "/", "\\", "[", "g", "e", "t", "\\", "/", "y", "\\", "/", "d", "\\", "]", "]", "[", "l", "o", "a", "d", "/", "x", "]", "[", "l", "o", "a", "d", "/", "y", "]">>,
      <<"[", "g", "e", "t", "/", "x", "/", "\\", "[", "s", "t", "o", "r", "e", "\\", "/", "y", "\\", "/", "c", "\\", "]", "]", "[", "i", "s", "_", "s", "t", "o", "r", "e", "d", "/", "y", "]">>,
      <<"[", "s", "t", "o", "r", "e", "/", "x", "/", "\\", "\\", "\\", "[", "a", "\\", "\\", "\\", "]", "]", "[", "l", "o", "a", "d", "/", "x", "]">> }

\* A source that stores an invocation of load on the name it is stored under
\* and loads it back
LoopInputs == { <<"[", "s", "t", "o", "r", "e", "/", "x", "/", "\\", "[", "l", "o", "a", "d", "\\", "/", "x", "\\", "]", "]", "[", "l", "o", "a", "d", "/", "x", "]">> }

Inputs ==
    RawInputs \cup FlatInputs \cup TryInputs \cup StoreInputs \cup NameInputs \cup HandlerInputs
        \cup NestingInputs \cup LoopInputs

(***************************************************************************)
(* execution.rs: apply_macros                                              *)
(*                                                                         *)
(* pc = "pop"   at the head of 'try_loop, about to pop a frame             *)
(* pc = "scan"  in the inner loop, input and range hold the popped frame   *)
(*              and macro_range what find_pair(&input) has just returned   *)
(* pc = "done"  apply_macros has returned result                           *)
(* pc = "panic" a replace_range was out of bounds                          *)
(*                                                                         *)
(* last records what the latest step did, calls counts the invocations     *)
(* dispatched and lastStore maps a name to the value of its latest store   *)
(* while no drop or inserting get of that name has followed; present is    *)
(* the set of the names that a store or a get has inserted and no drop has *)
(* removed since.                                                          *)
(***************************************************************************)
Frame(buf, r) == [buf |-> buf, range |-> r]

\* The history m with v noted as the latest store of k
Noted(m, k, v) == (k :> v) @@ m

\* The history m without a latest store of k
Forgotten(m, k) == [n \in DOMAIN m \ {k} |-> m[n]]

Blank ==
    [op |-> "init", name |-> <<>>, args |-> <<>>, mrange |-> NoRange, before |-> <<>>,
     parent |-> <<>>, hole |-> NoRange, repl |-> <<>>, err |-> NoError, caught |-> FALSE,
     stored |-> EmptyMap, depth |-> 0]

Init ==
    /\ src \in Inputs
    /\ macros \in Registries
    /\ try_stack = <<Frame(src, Range(0, Len(src)))>>
    /\ variables = EmptyMap
    /\ input = <<>>
    /\ range = NoRange
    /\ macro_range = NoPair
    /\ result = Ok(<<>>)
    /\ pc = "pop"
    /\ last = Blank
    /\ calls = 0
    /\ lastStore = EmptyMap
    /\ present = {}
    /\ trail = <<>>
    /\ steps = <<>>
    /\ answer = NoAnswer
    /\ TextIdle

\* What a step on the invocation mr of the current buffer records
Record(op, mr) ==
    [Blank EXCEPT !.op = op, !.name = mr.name, !.args = mr.arguments, !.mrange = mr.range,
                  !.before = input, !.hole = range, !.stored = variables,
                  !.depth = Len(try_stack)]

Panic(rec) ==
    /\ pc' = "panic"
    /\ last' = rec
    /\ UNCHANGED <<try_stack, input, range, macro_range, result>>

\* throw_error!: the error goes into the frame on top of the stack, or is returned
throw_error(rec, err) ==
    IF try_stack # <<>>
    THEN LET n == Len(try_stack)
             parent == try_stack[n].buf
             par_range == try_stack[n].range
             token == FailureToken(err)
             caught == [rec EXCEPT !.err = err, !.parent = parent, !.repl = token,
                                   !.caught = TRUE]
         IN  IF RangeOk(parent, par_range)
             THEN /\ try_stack' =
                        [try_stack EXCEPT ![n].buf = replace_range(parent, par_range, token)]
                  /\ pc' = "pop"
                  /\ input' = <<>>
                  /\ macro_range' = NoPair
                  /\ range' = NoRange
                  /\ last' = caught
                  /\ UNCHANGED result
             ELSE Panic(caught)
    ELSE /\ result' = Err(err)
         /\ pc' = "done"
         /\ input' = <<>>
         /\ macro_range' = NoPair
         /\ range' = NoRange
         /\ last' = [rec EXCEPT !.err = err]
         /\ UNCHANGED try_stack

\* The buffer is not scanned again after the replacement
Rewrite_once(rec, r, repl) ==
    IF RangeOk(input, r)
    THEN /\ input' = replace_range(input, r, repl)
         /\ macro_range' = NoPair
         /\ last' = [rec EXCEPT !.repl = repl]
         /\ UNCHANGED <<pc, try_stack, range, result>>
    ELSE Panic(rec)

\* input.replace_range(range, repl) followed by the next turn of the inner loop
Rewrite(rec, r, repl) ==
    IF RangeOk(input, r)
    THEN /\ input' = replace_range(input, r, repl)
         /\ macro_range' = find_pair(input')
         /\ last' = [rec EXCEPT !.repl = repl]
         /\ UNCHANGED <<pc, try_stack, range, result>>
    ELSE Panic(rec)

Scanning(name) ==
    /\ pc = "scan"
    /\ macro_range # NoPair
    /\ macro_range.name = name

\* while let Some((mut input, range)) = try_stack.pop()
Pop ==
    /\ UNCHANGED <<parse_vars, text_vars>>
    /\ pc = "pop"
    /\ try_stack # <<>>
    /\ input' = try_stack[Len(try_stack)].buf
    /\ range' = try_stack[Len(try_stack)].range
    /\ try_stack' = SubSeq(try_stack, 1, Len(try_stack) - 1)
    /\ macro_range' = find_pair(input')
    /\ pc' = "scan"
    /\ last' = [Blank EXCEPT !.op = "pop"]
    /\ UNCHANGED <<variables, result, src, macros, calls, lastStore, present>>

\* The count of invocations dispatched, which stops counting at MaxCalls
Counted(n) == IF n < MaxCalls THEN n + 1 ELSE n

\* "try" =>
Try ==
    /\ UNCHANGED <<parse_vars, text_vars>>
    /\ Scanning(s_try)
    /\ LET mac_range == macro_range.range
           rec == Record("try", macro_range)
       IN  IF macro_range.arguments = <<>>
           THEN throw_error(rec, MacroError(s_try, mac_range, NotEnoughArguments(1, 0)))
           ELSE LET new_input == unescape(macro_range.arguments[1]) IN
                /\ try_stack' = try_stack \o <<Frame(input, range), Frame(new_input, mac_range)>>
                /\ pc' = "pop"
                /\ input' = <<>>
                /\ macro_range' = NoPair
                /\ range' = NoRange
                /\ last' = [rec EXCEPT !.repl = new_input]
                /\ UNCHANGED result
    /\ calls' = Counted(calls)
    /\ UNCHANGED <<variables, src, macros, lastStore, present>>

\* "load" =>
Load ==
    /\ UNCHANGED <<parse_vars, text_vars>>
    /\ Scanning(s_load)
    /\ LET rec == Record("load", macro_range)
       IN  IF macro_range.arguments = <<>>
           THEN throw_error(rec, MacroError(s_load, macro_range.range, NotEnoughArguments(1, 0)))
           ELSE LET name == macro_range.arguments[1] IN
                IF ~contains_key(variables, name)
                THEN throw_error(rec, MacroError(s_load, macro_range.range,
                                                 User(LoadMessage(name))))
                ELSE Rewrite(rec, macro_range.range, variables[name])
    /\ calls' = Counted(calls)
    /\ UNCHANGED <<variables, src, macros, lastStore, present>>

\* "drop" =>
Drop ==
    /\ UNCHANGED <<parse_vars, text_vars>>
    /\ Scanning(s_drop)
    /\ LET rec == Record("drop", macro_range)
       IN  IF macro_range.arguments = <<>>
           THEN /\ throw_error(rec, MacroError(s_drop, macro_range.range,
                                               NotEnoughArguments(1, 0)))
                /\ UNCHANGED <<variables, lastStore, present>>
           ELSE LET name == macro_range.arguments[1] IN
                /\ variables' = remove(variables, name)
                /\ lastStore' = Forgotten(lastStore, name)
                /\ present' = present \ {name}
                /\ Rewrite(rec, macro_range.range, <<>>)
    /\ calls' = Counted(calls)
    /\ UNCHANGED <<src, macros>>

\* "store" =>
Store ==
    /\ UNCHANGED <<parse_vars, text_vars>>
    /\ Scanning(s_store)
    /\ LET rec == Record("store", macro_range)
       IN  IF Len(macro_range.arguments) < 2
           THEN /\ throw_error(rec, MacroError(s_store, macro_range.range,
                                   NotEnoughArguments(2, Len(macro_range.arguments))))
                /\ UNCHANGED <<variables, lastStore, present>>
           ELSE LET name == macro_range.arguments[1]
                    value == macro_range.arguments[2]
                IN  /\ variables' = insert(variables, name, value)
                    /\ lastStore' = Noted(lastStore, name, value)
                    /\ present' = present \cup {name}
                    /\ Rewrite(rec, macro_range.range, <<>>)
    /\ calls' = Counted(calls)
    /\ UNCHANGED <<src, macros>>

\* "get" =>
Get ==
    /\ UNCHANGED <<parse_vars, text_vars>>
    /\ Scanning(s_get)
    /\ LET rec == Record("get", macro_range)
       IN  IF Len(macro_range.arguments) < 2
           THEN /\ throw_error(rec, MacroError(s_get, macro_range.range,
                                   NotEnoughArguments(2, Len(macro_range.arguments))))
                /\ UNCHANGED <<variables, lastStore, present>>
           ELSE LET name == macro_range.arguments[1]
                    value == macro_range.arguments[2]
                    entries == or_insert(variables, name, value)
                IN  /\ variables' = entries
                    /\ lastStore' = IF contains_key(variables, name) THEN lastStore
                                    ELSE Forgotten(lastStore, name)
                    /\ present' = present \cup {name}
                    /\ Rewrite(rec, macro_range.range, entries[name])
    /\ calls' = Counted(calls)
    /\ UNCHANGED <<src, macros>>

\* is_stored leaves an empty value under a name that was not stored
IsStored_inserts ==
    /\ UNCHANGED <<parse_vars, text_vars>>
    /\ Scanning(s_is_stored)
    /\ LET rec == Record("is_stored", macro_range)
       IN  IF macro_range.arguments = <<>>
           THEN /\ throw_error(rec, MacroError(s_is_stored, macro_range.range,
                                               NotEnoughArguments(1, 0)))
                /\ UNCHANGED variables
           ELSE LET exists == contains_key(variables, macro_range.arguments[1]) IN
                /\ Rewrite(rec, macro_range.range, IF exists THEN <<"t", "r", "u", "e">> ELSE <<"f", "a", "l", "s", "e">>)
                /\ variables' = or_insert(variables, macro_range.arguments[1], <<>>)
    /\ calls' = Counted(calls)
    /\ UNCHANGED <<src, macros, lastStore, present>>

\* "is_stored" =>
IsStored ==
    /\ UNCHANGED <<parse_vars, text_vars>>
    /\ Scanning(s_is_stored)
    /\ LET rec == Record("is_stored", macro_range)
       IN  IF macro_range.arguments = <<>>
           THEN throw_error(rec, MacroError(s_is_stored, macro_range.range,
                                            NotEnoughArguments(1, 0)))
           ELSE LET exists == contains_key(variables, macro_range.arguments[1]) IN
                Rewrite(rec, macro_range.range, IF exists THEN <<"t", "r", "u", "e">> ELSE <<"f", "a", "l", "s", "e">>)
    /\ calls' = Counted(calls)
    /\ UNCHANGED <<variables, src, macros, lastStore, present>>

CoreNames == {s_try, s_load, s_drop, s_store, s_get, s_is_stored}

\* other =>
Other ==
    /\ UNCHANGED <<parse_vars, text_vars>>
    /\ pc = "scan"
    /\ macro_range # NoPair
    /\ macro_range.name \notin CoreNames
    /\ LET other == macro_range.name
           rec == Record("other", macro_range)
       IN  IF ~contains_key(macros, other)
           THEN throw_error(rec, MacroError(other, macro_range.range, Nonexistent))
           ELSE LET replace_ == apply(macros[other], macro_range.range, macro_range.arguments)
                IN  IF replace_.ok
                    THEN Rewrite([rec EXCEPT !.op = "apply"], macro_range.range, replace_.value)
                    ELSE \* the ? operator returns the error of the handler
                         /\ result' = Err(replace_.err)
                         /\ pc' = "done"
                         /\ input' = <<>>
                         /\ macro_range' = NoPair
                         /\ range' = NoRange
                         /\ last' = [rec EXCEPT !.op = "apply", !.err = replace_.err]
                         /\ UNCHANGED try_stack
    /\ calls' = Counted(calls)
    /\ UNCHANGED <<variables, src, macros, lastStore, present>>

\* The inner loop has ended: the frame is finished
Finish ==
    /\ UNCHANGED <<parse_vars, text_vars>>
    /\ pc = "scan"
    /\ macro_range = NoPair
    /\ LET rec == [Blank EXCEPT !.op = "finish", !.before = input, !.hole = range,
                                !.stored = variables, !.depth = Len(try_stack)]
       IN  IF try_stack # <<>>
           THEN LET n == Len(try_stack)
                    parent == try_stack[n].buf
                    par_range == try_stack[n].range
                    token == SuccessToken(input)
                    done == [rec EXCEPT !.parent = parent, !.repl = token]
                IN  IF RangeOk(parent, par_range)
                    THEN /\ try_stack' = [try_stack EXCEPT
                                ![n].buf = replace_range(parent, par_range, token)]
                         /\ pc' = "pop"
                         /\ input' = <<>>
                         /\ macro_range' = NoPair
                         /\ range' = NoRange
                         /\ last' = done
                         /\ UNCHANGED result
                    ELSE Panic(done)
           ELSE /\ result' = Ok(input)
                /\ pc' = "done"
                /\ input' = <<>>
                /\ macro_range' = NoPair
                /\ range' = NoRange
                /\ last' = [rec EXCEPT !.op = "return"]
                /\ UNCHANGED try_stack
    /\ UNCHANGED <<variables, src, macros, calls, lastStore, present>>

Next ==
    \/ Pop
    \/ Try
    \/ Load
    \/ Drop
    \/ Store
    \/ Get
    \/ IsStored
    \/ Other
    \/ Finish

Spec == Init /\ [][Next]_vars

(***************************************************************************)
(* The functions of parsing.rs and the escape handler applied in a row to  *)
(* one string: trail holds the string drawn followed by the result of      *)
(* every function applied so far, steps the names of those functions.      *)
(***************************************************************************)
\* apply_macros is not running
Idle ==
    /\ pc = "idle"
    /\ try_stack = <<>>
    /\ input = <<>>
    /\ range = NoRange
    /\ macro_range = NoPair
    /\ variables = EmptyMap
    /\ result = Ok(<<>>)
    /\ src = <<>>
    /\ macros = EmptyRegistry
    /\ last = Blank
    /\ calls = 0
    /\ lastStore = EmptyMap
    /\ present = {}

engine_vars == <<pc, try_stack, input, range, macro_range, variables, result, src, macros,
                 last, calls, lastStore, present>>

ParseInit ==
    /\ Idle
    /\ trail \in {<<s>> : s \in RawInputs \cup TestSources}
    /\ steps = <<>>
    /\ answer = NoAnswer
    /\ TextIdle

\* The escape handler applied to the string as its only argument
EscapeStep ==
    /\ trail # <<>>
    /\ Len(steps) < MaxSteps
    /\ trail' = Append(trail, Escape(NoRange, <<trail[Len(trail)]>>).value)
    /\ steps' = Append(steps, "escape")
    /\ UNCHANGED <<answer, engine_vars, text_vars>>

\* find_innermost_brackets applied to the string
FindStep ==
    /\ trail # <<>>
    /\ answer' = [NoAnswer EXCEPT !.op = "find", !.of = trail[Len(trail)],
                                  !.range = find_innermost_brackets(trail[Len(trail)])]
    /\ UNCHANGED <<trail, steps, engine_vars, text_vars>>

\* split_arguments applied to the string
SplitStep ==
    /\ trail # <<>>
    /\ LET split == split_arguments(trail[Len(trail)]) IN
       answer' = [NoAnswer EXCEPT !.op = "split", !.of = trail[Len(trail)],
                                  !.name = split.name, !.arguments = split.arguments]
    /\ UNCHANGED <<trail, steps, engine_vars, text_vars>>

\* parsing::unescape applied to the string
UnescapeStep ==
    /\ trail # <<>>
    /\ Len(steps) < MaxSteps
    /\ trail' = Append(trail, unescape(trail[Len(trail)]))
    /\ steps' = Append(steps, "unescape")
    /\ UNCHANGED <<answer, engine_vars, text_vars>>

ParseNext ==
    \/ EscapeStep
    \/ UnescapeStep
    \/ FindStep
    \/ SplitStep

ParseSpec == ParseInit /\ [][ParseNext]_vars

(***************************************************************************)
(* One call of TextMacro::apply on a pattern and a list of arguments       *)
(***************************************************************************)
PatternAlphabet == {"$", "#", "0", "1", "2", BS, "a"}

\* Longer patterns: the pattern of the doc test, and patterns with a token
\* after three characters and before an escaped $
LongPatterns == { <<"[", "m", "u", "l", "t", "i", "p", "l", "y", "/", "$", "1", "/", "$", "1", "]">>, <<"a", "b", "c", "$", "#", "\\", "$">>, <<"a", "b", "c", "$", "0", "\\", "$">>, <<"a", "b", "$", "1", "\\", "$", "$", "2">> }

Patterns == SeqsUpTo(PatternAlphabet, MaxPatLen) \cup LongPatterns

\* Lists of arguments; the last two hold arguments with a token in them
ArgLists ==
    { <<>>, << <<"b">> >>, << <<"2">>, <<"c", "d">> >>, << <<>>, <<"b">>, <<"c">> >>,
      << <<"$", "1">> >>, << <<"a", "b">>, <<"$", "#">> >> }

TextInit ==
    /\ Idle
    /\ trail = <<>>
    /\ steps = <<>>
    /\ answer = NoAnswer
    /\ pattern \in Patterns
    /\ tm_arguments \in ArgLists
    /\ target = pattern
    /\ passed = <<>>
    /\ subs = <<>>
    /\ none_found = FALSE
    /\ tm_pc = "protect"
    /\ returned = Ok(<<>>)
    /\ site = NoSite

\* target = target.replace(r"\$", "\u{FFFF}")
Protect ==
    /\ tm_pc = "protect"
    /\ target' = replace_pair(target, BS, "$", Sentinel)
    /\ tm_pc' = "collect"
    /\ site' = [NoSite EXCEPT !.op = "protect", !.before = target]
    /\ UNCHANGED <<pattern, tm_arguments, passed, subs, none_found, returned>>
    /\ UNCHANGED <<engine_vars, parse_vars>>

\* One turn of the while loop up to the end of the loop over rmatch_indices
Collect ==
    /\ tm_pc = "collect"
    /\ ~none_found
    /\ none_found' = TRUE
    /\ passed' = target
    /\ subs' = collect(target, tm_arguments)
    /\ tm_pc' = "replace"
    /\ site' = [NoSite EXCEPT !.op = "collect", !.before = target]
    /\ UNCHANGED <<pattern, tm_arguments, target, returned>>
    /\ UNCHANGED <<engine_vars, parse_vars>>

\* One turn of the loop over subs.drain(..)
Substitute ==
    /\ tm_pc = "replace"
    /\ subs # <<>>
    /\ LET range_ == subs[1].range
           substring == subs[1].sub
           found == substring.kind = "Count" \/ substring.index = 0
                    \/ substring.index <= Len(tm_arguments)
           repl == IF substring.kind = "Count" THEN to_string(Len(tm_arguments))
                   ELSE IF substring.index = 0 THEN join(tm_arguments, <<"/">>)
                   ELSE IF found THEN tm_arguments[substring.index] ELSE <<>>
           rec == [op |-> "replace", before |-> passed, range |-> range_, sub |-> substring,
                   repl |-> repl]
       IN  /\ subs' = Tail(subs)
           /\ site' = rec
           /\ IF ~found
              THEN UNCHANGED <<passed, none_found, tm_pc>>
              ELSE /\ none_found' = FALSE
                   /\ IF TextRangeOk(passed, range_)
                      THEN /\ passed' = replace_range(passed, range_, repl)
                           /\ UNCHANGED tm_pc
                      ELSE /\ tm_pc' = "panic"
                           /\ UNCHANGED passed
    /\ UNCHANGED <<pattern, tm_arguments, target, returned>>
    /\ UNCHANGED <<engine_vars, parse_vars>>

\* The end of a pass with the while loop left whatever the pass did
EndPass_once ==
    /\ tm_pc = "replace"
    /\ subs = <<>>
    /\ target' = passed
    /\ tm_pc' = "restore"
    /\ site' = [NoSite EXCEPT !.op = "endpass", !.before = target]
    /\ UNCHANGED <<pattern, tm_arguments, passed, subs, none_found, returned>>
    /\ UNCHANGED <<engine_vars, parse_vars>>

\* target = passed, and the test of the while loop
EndPass ==
    /\ tm_pc = "replace"
    /\ subs = <<>>
    /\ target' = passed
    /\ tm_pc' = IF none_found THEN "restore" ELSE "collect"
    /\ site' = [NoSite EXCEPT !.op = "endpass", !.before = target]
    /\ UNCHANGED <<pattern, tm_arguments, passed, subs, none_found, returned>>
    /\ UNCHANGED <<engine_vars, parse_vars>>

\* target = target.replace('\u{FFFF}', "$"); Ok(target)
Return ==
    /\ tm_pc = "restore"
    /\ target' = restore(target)
    /\ returned' = Ok(target')
    /\ tm_pc' = "done"
    /\ site' = [NoSite EXCEPT !.op = "return", !.before = target]
    /\ UNCHANGED <<pattern, tm_arguments, passed, subs, none_found>>
    /\ UNCHANGED <<engine_vars, parse_vars>>

TextNext ==
    \/ Protect
    \/ Collect
    \/ Substitute
    \/ EndPass
    \/ Return

TextSpec == TextInit /\ [][TextNext]_vars

\* apply runs on one thread and waits for nothing: a step that can be taken is
\* taken
TextFairSpec == TextSpec /\ WF_vars(TextNext)

(***************************************************************************)
(* Vocabulary of the properties                                            *)
(***************************************************************************)
\* The number of consecutive backslashes that end at index i of s
RECURSIVE BackslashRun(_, _)
BackslashRun(s, i) == IF i < 1 \/ s[i] # BS THEN 0 ELSE 1 + BackslashRun(s, i - 1)

\* The character at index i of s is escaped by an unescaped backslash
EscapedAt(s, i) == BackslashRun(s, i - 1) % 2 = 1

UnescapedAt(s, i, ch) == s[i] = ch /\ ~EscapedAt(s, i)

HasUnescaped(s, ch) == \E i \in 1..Len(s) : UnescapedAt(s, i, ch)

\* s holds an unescaped [ with an unescaped ] somewhere after it
HasInvocation(s) ==
    \E i \in 1..Len(s) : \E j \in (i + 1)..Len(s) :
        UnescapedAt(s, i, "[") /\ UnescapedAt(s, j, "]")

\* The characters of s at the indices of keep, in the order of s
Pick(s, keep) ==
    [k \in 1..Cardinality(keep) |->
        s[CHOOSE i \in keep : Cardinality({j \in keep : j <= i}) = k]]

\* s with one backslash layer removed: every unescaped backslash is taken out
OneLayerOff(s) ==
    Pick(s, {i \in 1..Len(s) : ~UnescapedAt(s, i, BS)})

\* The pieces of s between its unescaped slashes
RawParts(s) ==
    LET cuts == {i \in 1..Len(s) : UnescapedAt(s, i, "/")}
        edge(k) == IF k = 0 THEN 0
                   ELSE IF k > Cardinality(cuts) THEN Len(s) + 1
                   ELSE CHOOSE i \in cuts : Cardinality({j \in cuts : j <= i}) = k
    IN  [k \in 1..(Cardinality(cuts) + 1) |-> SubSeq(s, edge(k - 1) + 1, edge(k) - 1)]

\* The text between the brackets of the invocation at range r of buf
RawInterior(buf, r) == SubSeq(buf, r.start + 2, r.end - 1)

\* s with one backslash added before every backslash, [ and ]
BracketEscaped(s) ==
    concat([i \in 1..Len(s) |-> IF s[i] \in {BS, "[", "]"} THEN <<BS, s[i]>> ELSE <<s[i]>>])

\* The latest step raised an error
Raised == last.err # NoError

\* The latest step ended a try body and put its token into the parent frame
BodySucceeded == last.op = "finish" /\ last.depth > 0

BodyFailed == Raised /\ last.caught

BodyEnded == BodySucceeded \/ BodyFailed

\* The buffer of the frame on top of the stack
ParentBuffer == try_stack[Len(try_stack)].buf

\* buf with the bytes of range r replaced by text, the bytes before and after r kept
Substituted(buf, r, text) ==
    SubSeq(buf, 1, r.start) \o text \o SubSeq(buf, r.end + 1, Len(buf))

\* The latest step dispatched an invocation
Dispatched == last.op \in {"try", "load", "drop", "store", "get", "is_stored", "other", "apply"}

\* The latest step rewrote the current buffer
Rewrote == last.op \in {"load", "drop", "store", "get", "is_stored", "apply"}
           /\ ~Raised /\ pc = "scan"

\* The byte offsets of s at which the two characters a b stand
TokensAt(s, a, b) == {idx \in 0..(Len(s) - 2) : s[idx + 1] = a /\ s[idx + 2] = b}

\* The longest run of ASCII digits of s that starts at byte offset from
DigitRun(s, from) ==
    LET isDigit(i) == s[i] \in {"0", "1", "2", "3", "4", "5", "6", "7", "8", "9"}
        n == CHOOSE k \in 0..(Len(s) - from) :
                 /\ \A i \in 1..k : isDigit(from + i)
                 /\ k = Len(s) - from \/ ~isDigit(from + k + 1)
    IN  SubSeq(s, from + 1, from + n)

\* run without its leading zeros
RECURSIVE StripZeros(_)
StripZeros(run) == IF run # <<>> /\ run[1] = "0" THEN StripZeros(Tail(run)) ELSE run

\* The number of escaped-dollar characters in the working buffer s
Sentinels(s) == Cardinality({i \in 1..Len(s) : s[i] = "xEF"})

\* The working buffer of TextMacro::apply at the current position
Working == IF tm_pc = "replace" THEN passed ELSE target

\* s holds a token that args give a value to: $#, $0, or $N with N the longest
\* run of digits after the $ and 1 <= N <= number of arguments
HasToken(s, args) ==
    \E idx \in 0..(Len(s) - 2) :
        /\ s[idx + 1] = "$"
        /\ \/ s[idx + 2] \in {"#", "0"}
           \/ \E n \in 1..Len(args) : DigitRun(s, idx + 1) = to_string(n)

\* The latest step of TextMacro::apply collected the sites of a pass
Collected == site.op = "collect"

\* Some entry of subs is the site s
Pushed(s) == \E k \in 1..Len(subs) : subs[k] = s

\* No entry of subs starts at byte offset idx
Skipped(idx) == \A k \in 1..Len(subs) : subs[k].range.start # idx

(***************************************************************************)
(* Properties                                                              *)
(***************************************************************************)
\* C1: apply_macros never panics: no step performs a replace_range whose range
\* is out of the bounds of the buffer it is applied to.
C1_NeverPanics == pc # "panic"

\* C2: every error raised while a try is active is caught, whatever its kind,
\* and apply_macros returns an error only when it is raised with no try active.
C2_EveryErrorCaught ==
    Raised => IF last.depth > 0 THEN last.caught /\ pc # "done"
              ELSE ~last.caught /\ pc = "done" /\ ~result.ok

\* C3: when a try body ends, its token replaces exactly the range R of the try
\* invocation in the parent buffer; the bytes before and after R are unchanged.
C3_TokenReplacesTry ==
    BodyEnded /\ pc = "pop" =>
        ParentBuffer = Substituted(last.parent, last.hole, last.repl)

\* C4: the token of a failed try is false/ followed by the Display text of the
\* error kind alone, with every backslash, [ and ] preceded by a backslash.
C4_FailureTokenIsKind ==
    BodyFailed => last.repl = <<"f", "a", "l", "s", "e", "/">> \o BracketEscaped(DisplayKind(last.err.error_type))

C6_StoreSurvivesFailure ==
    BodyFailed /\ pc = "pop" =>
        LET follows == SubSeq(last.parent, last.hole.end + 1, Len(last.parent))
            now == ParentBuffer
        IN  /\ variables = last.stored
            /\ Len(now) >= Len(follows)
            /\ SubSeq(now, Len(now) - Len(follows) + 1, Len(now)) = follows

\* C7: an input with no unescaped [ is returned unchanged, byte for byte, and
\* no invocation is dispatched.
C7_NoBracketIdentity ==
    ~HasUnescaped(src, "[") =>
        /\ calls = 0
        /\ pc # "panic"
        /\ pc = "done" => result = Ok(src)

\* An input holding an escaped [ and an unescaped ] that was returned unchanged
C7_Witness ==
    /\ pc = "done"
    /\ ~HasUnescaped(src, "[")
    /\ \E i \in 1..Len(src) : src[i] = "[" /\ EscapedAt(src, i)
    /\ \E i \in 1..Len(src) : UnescapedAt(src, i, "]")
    /\ result = Ok(src)

\* C8: a load of a name that is not stored raises a User error of macro load
\* whose message is: variable "<name>" does not currently exist.
C8_LoadMessageQuoted ==
    last.op = "load" /\ Raised /\ last.args # <<>> =>
        /\ last.err.name = s_load
        /\ last.err.error_type =
               User(<<"v", "a", "r", "i", "a", "b", "l", "e", " ", "\"">> \o last.args[1] \o <<"\"", " ", "d", "o", "e", "s", " ", "n", "o", "t", " ", "c", "u", "r", "r", "e", "n", "t", "l", "y", " ", "e", "x", "i", "s", "t">>)
        /\ last.depth = 0 => pc = "done" /\ result = Err(last.err)

\* C9: a load of n that follows a store of n to v, with no store, drop or
\* inserting get of n in between, is replaced by exactly v; a store is replaced
\* by the empty string.
C9_LoadAfterStore ==
    /\ last.op = "load" /\ Rewrote /\ last.args[1] \in DOMAIN lastStore =>
           /\ last.repl = lastStore[last.args[1]]
           /\ input = Substituted(last.before, last.mrange, lastStore[last.args[1]])
    /\ last.op = "store" /\ Rewrote =>
           input = Substituted(last.before, last.mrange, <<>>)

\* x stored twice and then loaded: the load is replaced by the later value
C9_Witness ==
    /\ last.op = "load"
    /\ Rewrote
    /\ src = Inv(s_store, << <<"x">>, <<"b">> >>) \o Inv(s_store, << <<"x">>, <<"c">> >>)
             \o Inv(s_load, << <<"x">> >>)
    /\ lastStore = (<<"x">> :> <<"c">>)
    /\ input = <<"c">>

\* C10: get/n/d leaves an existing n unchanged and is replaced by its value;
\* it inserts d when n is absent and is replaced by d. The text substituted is
\* the value of n in the store after the operation.
C10_Get ==
    last.op = "get" /\ Rewrote =>
        LET n == last.args[1]
            d == last.args[2]
        IN  /\ n \in DOMAIN last.stored =>
                   variables = last.stored /\ last.repl = last.stored[n]
            /\ n \notin DOMAIN last.stored =>
                   /\ DOMAIN variables = DOMAIN last.stored \cup {n}
                   /\ variables[n] = d
                   /\ \A m \in DOMAIN last.stored : variables[m] = last.stored[m]
                   /\ last.repl = d
            /\ last.repl = variables[n]
            /\ input = Substituted(last.before, last.mrange, last.repl)

\* A get of a stored name whose default differs from the stored value
C10_Witness ==
    /\ last.op = "get"
    /\ Rewrote
    /\ last.args[1] \in DOMAIN last.stored
    /\ last.stored[last.args[1]] # last.args[2]
    /\ last.repl = last.stored[last.args[1]]

\* C11: is_stored/n is replaced by true exactly when n was inserted by a store
\* or a get and not dropped since, and by false otherwise; drop/n removes n and
\* nothing else, is replaced by the empty string, and raises no error when n is
\* absent.
C11_IsStoredAndDrop ==
    /\ last.op = "is_stored" /\ last.args # <<>> =>
           /\ Rewrote
           /\ last.repl = IF last.args[1] \in present THEN <<"t", "r", "u", "e">> ELSE <<"f", "a", "l", "s", "e">>
           /\ input = Substituted(last.before, last.mrange, last.repl)
    /\ last.op = "drop" /\ last.args # <<>> =>
           /\ Rewrote
           /\ DOMAIN variables = DOMAIN last.stored \ {last.args[1]}
           /\ \A n \in DOMAIN variables : variables[n] = last.stored[n]
           /\ input = Substituted(last.before, last.mrange, <<>>)

\* A drop of the absent x raised nothing and left y stored
C11_Witness ==
    /\ last.op = "is_stored"
    /\ last.args = << <<"y">> >>
    /\ last.repl = <<"t", "r", "u", "e">>
    /\ src = Inv(s_store, << <<"y">>, <<"c">> >>) \o Inv(s_drop, << <<"x">> >>)
             \o Inv(s_is_stored, << <<"y">> >>)

\* C12: an invocation whose unescaped name is not a core name and not a key of
\* the registry raises a Nonexistent error carrying that name, and only such an
\* invocation does; names are compared byte for byte, and the current buffer is
\* not rewritten for that invocation.
C12_UnknownName ==
    /\ Dispatched /\ last.name \notin CoreNames /\ last.name \notin DOMAIN macros =>
           /\ Raised
           /\ last.err.error_type.kind = "Nonexistent"
           /\ last.err.name = last.name
           /\ pc # "scan"
           /\ last.depth = 0 => pc = "done" /\ result = Err(last.err)
    /\ Raised /\ last.err.error_type.kind = "Nonexistent" =>
           last.name \notin CoreNames /\ last.name \notin DOMAIN macros

\* Load is neither load nor registered: the call returns a Nonexistent error
C12_Witness ==
    /\ last.name = <<"L", "o", "a", "d">>
    /\ macros = Stdlib
    /\ variables # EmptyMap
    /\ pc = "done"
    /\ result = Err(MacroError(<<"L", "o", "a", "d">>, last.mrange, Nonexistent))

\* C13: every range the scanner returns for a source S satisfies
\* start < end <= len(S), S[start] is an unescaped [ and S[end-1] is an
\* unescaped ].
C13_ScannerRange ==
    pc = "scan" /\ macro_range # NoPair =>
        LET r == macro_range.range IN
        /\ 0 <= r.start
        /\ r.start < r.end
        /\ r.end <= Len(input)
        /\ UnescapedAt(input, r.start + 1, "[")
        /\ UnescapedAt(input, r.end, "]")

\* The scanner passed an escaped ] after the [ of the range it returned
C13_Witness ==
    /\ pc = "scan"
    /\ macro_range # NoPair
    /\ \E i \in (macro_range.range.start + 2)..(macro_range.range.end - 1) :
           input[i] = "]" /\ EscapedAt(input, i)

\* C14: unescape is a left inverse of escaping: unescape applied to the text the
\* escape handler returns for a string s gives s back exactly.
C14_UnescapeInvertsEscape ==
    \A i \in 1..(Len(steps) - 1) :
        steps[i] = "escape" /\ steps[i + 1] = "unescape" => trail[i + 2] = trail[i]

\* A string holding a backslash, a slash and both brackets went through escape
\* and unescape
C14_Witness ==
    /\ steps = <<"escape", "unescape">>
    /\ trail[1] = <<"\\", "/", "[", "]">>
    /\ trail[2] = <<"\\", "\\", "\\", "/", "\\", "[", "\\", "]">>
    /\ trail[3] = trail[1]

C16_InnermostLeftmost ==
    Dispatched =>
        LET b == last.before
            opens == {i \in 1..Len(b) : UnescapedAt(b, i, "[")}
            closes == {j \in 1..Len(b) : UnescapedAt(b, j, "]") /\ \E i \in opens : i < j}
        IN  /\ closes # {}
            /\ LET close == CHOOSE j \in closes : \A k \in closes : j <= k
                    open == CHOOSE i \in opens : i < close /\ \A k \in opens : k < close => k <= i
                IN  last.mrange = Range(open - 1, close)
            /\ \A i \in (last.mrange.start + 2)..(last.mrange.end - 1) :
                   ~UnescapedAt(b, i, "[") /\ ~UnescapedAt(b, i, "]")
            /\ ~HasInvocation(SubSeq(b, 1, last.mrange.start))

\* The get nested in the store was dispatched first, then the store, and the
\* load to their right read what the store had written
C16_Witness ==
    /\ src = <<"[", "s", "t", "o", "r", "e", "/", "x", "/", "[", "g", "e", "t", "/", "y", "/", "d", "]", "]", "[", "l", "o", "a", "d", "/", "x", "]">>
    /\ last.op = "load"
    /\ last.before = <<"[", "l", "o", "a", "d", "/", "x", "]">>
    /\ last.repl = <<"d">>
    /\ calls = 3

\* C17: replacement text is scanned again from the start of the buffer: while
\* the buffer holds an unescaped [ followed by an unescaped ] the scan finds an
\* invocation to dispatch, so an invocation brought in by a handler, a load or a
\* get is dispatched on a later step, and a string returned by apply_macros holds
\* no unescaped [ that is followed by an unescaped ].
C17_ReplacementRescanned ==
    /\ pc = "scan" => (macro_range = NoPair <=> ~HasInvocation(input))
    /\ pc = "done" /\ result.ok => ~HasInvocation(result.value)

\* The get that the load of x brought into the buffer was dispatched: y is stored
C17_Witness ==
    /\ src = <<"[", "s", "t", "o", "r", "e", "/", "x", "/", "\\", "[", "g", "e", "t", "\\", "/", "y", "\\", "/", "d", "\\", "]", "]", "[", "l", "o", "a", "d", "/", "x", "]", "[", "l", "o", "a", "d", "/", "y", "]">>
    /\ pc = "done"
    /\ result = Ok(<<"d", "d">>)
    /\ variables[<<"x">>] = <<"[", "g", "e", "t", "/", "y", "/", "d", "]">>

\* C18: wherever the token $# stands in the pattern, apply replaces exactly its
\* two characters by the decimal number of arguments, keeps the text before and
\* after it, and does not panic.
C18_CountToken ==
    /\ Collected =>
           \A idx \in TokensAt(passed, "$", "#") :
               Pushed([range |-> Range(idx, idx + 2), sub |-> Count])
    /\ site.op = "replace" /\ site.sub = Count =>
           /\ tm_pc # "panic"
           /\ passed = Substituted(site.before, Range(site.range.start, site.range.start + 2),
                                   to_string(Len(tm_arguments)))

\* C19: wherever the token $0 stands in the pattern, apply replaces exactly its
\* two characters by all arguments joined with /, the empty string when there
\* are none, and keeps the text before and after it.
C19_JoinedToken ==
    /\ Collected =>
           \A idx \in TokensAt(passed, "$", "0") :
               Pushed([range |-> Range(idx, idx + 2), sub |-> Index(0)])
    /\ site.op = "replace" /\ site.sub = Index(0) =>
           /\ tm_pc # "panic"
           /\ passed = Substituted(site.before, Range(site.range.start, site.range.start + 2),
                                   join(tm_arguments, <<"/">>))
           /\ tm_arguments = <<>> => site.repl = <<>>

C21_EscapedDollar ==
    /\ tm_pc \in {"collect", "replace", "restore"} =>
           Sentinels(Working) = Cardinality(TokensAt(pattern, BS, "$"))
    /\ Collected => \A k \in 1..Len(subs) : passed[subs[k].range.start + 1] = "$"
    /\ tm_pc = "done" /\ pattern = <<"\\", "$", "1">> => returned = Ok(<<"$", "1">>)

\* C22: passes are repeated until a pass makes no substitution: another pass
\* follows only a pass whose buffer held a token, and when the loop is left the
\* working buffer, before the sentinel is turned back into $, holds no $#, no
\* $0 and no $N with 1 <= N <= number of arguments; $$1 with the arguments 2
\* and a two-byte second argument yields the second argument.
C22_Fixpoint ==
    /\ tm_pc = "restore" => ~HasToken(target, tm_arguments)
    /\ site.op = "endpass" =>
           (tm_pc = "collect" <=> HasToken(site.before, tm_arguments))
    /\ site.op = "return" => ~HasToken(site.before, tm_arguments)
    /\ tm_pc = "done" /\ pattern = <<"$", "$", "1">> /\ tm_arguments = << <<"2">>, <<"c", "d">> >> =>
           returned = Ok(<<"c", "d">>)

\* $$1 became $2 in the first pass and the second argument in the second pass
C22_Witness ==
    /\ pattern = <<"$", "$", "1">>
    /\ tm_arguments = << <<"2">>, <<"c", "d">> >>
    /\ site.op = "return"
    /\ site.before = <<"c", "d">>
    /\ returned = Ok(<<"c", "d">>)

\* C23: find_innermost_brackets returns the range that ends at the first
\* unescaped ] of the source with an unescaped [ before it and that starts at
\* the nearest unescaped [ before that ]; the interior of the range holds no
\* unescaped bracket; none is returned exactly when no unescaped ] stands after
\* an unescaped [; a character straight after an unescaped backslash is never
\* taken for a bracket or for a backslash.
C23_FindInnermost ==
    answer.op = "find" =>
        LET s == answer.of
            opens == {i \in 1..Len(s) : UnescapedAt(s, i, "[")}
            closes == {j \in 1..Len(s) : UnescapedAt(s, j, "]") /\ \E i \in opens : i < j}
        IN  /\ answer.range = NoRange <=> closes = {}
            /\ answer.range = NoRange <=> ~HasInvocation(s)
            /\ closes # {} =>
                   LET close == CHOOSE j \in closes : \A k \in closes : j <= k
                       open == CHOOSE i \in opens :
                                   i < close /\ \A k \in opens : k < close => k <= i
                   IN  /\ answer.range = Range(open - 1, close)
                       /\ ~EscapedAt(s, open) /\ ~EscapedAt(s, close)
                       /\ \A i \in (open + 1)..(close - 1) :
                              ~UnescapedAt(s, i, "[") /\ ~UnescapedAt(s, i, "]")
            /\ s = <<"[", "a", "[", "b", "[", "c", "[", "d", "]", "c", "]", "[", "e", "]", "b", "]", "a", "]">> => answer.range = Range(6, 9)
            /\ s = <<"\\", "[", "[", "]", "\\", "]">> => answer.range = Range(2, 4)
            /\ s = <<"[", "[", "\\", "]", "[", "]">> => answer.range = Range(4, 6)
            /\ s = <<"o", "n", "l", "y", " ", "o", "p", "e", "n", " ", "[", "[", "[", " ", "\\", "]">> => answer.range = NoRange
            /\ s = <<"[", " ", "n", "o", " ", "c", "l", "o", "s", "e", " ", "\\", "]", "\\", "]">> => answer.range = NoRange

\* The [ after an escaped backslash opened the range returned
C23_Witness ==
    /\ answer.op = "find"
    /\ answer.of = <<"\\", "\\", "[", "]">>
    /\ answer.range = Range(2, 4)

\* C24: split_arguments splits the interior at every unescaped / and nowhere
\* else: there are as many arguments as unescaped / in the interior, an empty
\* interior gives an empty name and no arguments, a / at the end gives an empty
\* last argument, and the name and the arguments joined with / are the interior
\* again.
C24_SplitArguments ==
    answer.op = "split" =>
        LET s == answer.of
            parts == <<answer.name>> \o answer.arguments
            cuts == {i \in 1..Len(s) : UnescapedAt(s, i, "/")}
        IN  /\ Len(answer.arguments) = Cardinality(cuts)
            /\ parts = RawParts(s)
            /\ s = <<>> => answer.name = <<>> /\ answer.arguments = <<>>
            /\ Len(s) \in cuts => answer.arguments[Len(answer.arguments)] = <<>>
            /\ join(parts, <<"/">>) = s

\* An interior with an escaped / between two unescaped ones, the last at the end
C24_Witness ==
    /\ answer.op = "split"
    /\ answer.of = <<"/", "\\", "/", "/">>
    /\ answer.name = <<>>
    /\ answer.arguments = << <<"\\", "/">>, <<>> >>

\* C25: unescape(s) is s with every unescaped backslash removed and the
\* character after it kept: two backslashes in a row give one, a lone backslash
\* at the end is dropped, the result is never longer than s and is s when s
\* holds no backslash.
C25_Unescape ==
    \A i \in 1..Len(steps) :
        steps[i] = "unescape" =>
            LET s == trail[i]
                u == trail[i + 1]
            IN  /\ u = OneLayerOff(s)
                /\ Len(u) <= Len(s)
                /\ (\A k \in 1..Len(s) : s[k] # BS) => u = s
                /\ \A k \in 1..Len(s) :
                       EscapedAt(s, k) => \E j \in 1..Len(u) : u[j] = s[k]
                /\ s = <<BS, BS>> => u = <<BS>>
                /\ s = <<"x", BS>> => u = <<"x">>

\* Two backslashes gave one, the x was kept and the lone backslash at the end
\* was dropped
C25_Witness ==
    /\ steps # <<>>
    /\ steps[1] = "unescape"
    /\ trail[1] = <<BS, BS, "x", BS>>
    /\ trail[2] = <<BS, "x">>

\* C26: on a try invocation the buffer of the new frame is the raw first
\* argument of the invocation with exactly one backslash layer removed, so a
\* body written with two escape layers still carries one when its evaluation
\* starts.
C26_TryBodyOneLayer ==
    last.op = "try" /\ ~Raised =>
        LET raw == RawParts(RawInterior(last.before, last.mrange)) IN
        /\ Len(raw) >= 2
        /\ pc = "pop"
        /\ ParentBuffer = OneLayerOff(raw[2])

\* C27: each rewrite strictly reduces the number of unescaped [ of the current
\* buffer, so the inner loop ends: for every input and registry, also for
\* inputs that store text holding invocations and load it back, apply_macros
\* comes to an end after finitely many rewrite steps.
\* A rewrite that leaves the buffer and the store as they were brings the run
\* back to the state it was in, and the run, which has no other choice, never
\* ends; a count of unescaped [ that gets smaller at each rewrite rules that out.
C27_Terminates ==
    Rewrote => ~(input = last.before /\ variables = last.stored)

\* C28: the variable store is empty when apply_macros starts and is changed
\* only by store, drop and get: a step that dispatches load, is_stored or a
\* registry handler, enters a try, finishes a try body or raises or catches an
\* error leaves the store as it was.
C28_StoreChangedBy ==
    /\ variables = EmptyMap
    /\ [][/\ last'.op \notin {"store", "drop", "get"} => variables' = variables
          /\ last'.err # NoError => variables' = variables]_vars

\* A load in a try body raised an error after a store, the error was caught and
\* the store still holds what was stored
C28_Witness ==
    /\ BodyFailed
    /\ last.op = "load"
    /\ variables # EmptyMap
    /\ variables = last.stored

\* C29: with a try nested in the body of another try, an error raised in the
\* inner body is caught by the inner try only: the failed inner buffer alone is
\* discarded, the failure token takes the place of the inner try invocation in
\* the outer body, the evaluation of the outer body goes on, and the outer try
\* ends with a success token that holds the inner false/ token.
C29_NestedTry ==
    /\ BodyFailed /\ last.depth >= 2 =>
           /\ pc = "pop"
           /\ Len(try_stack) = last.depth
           /\ SubSeq(last.repl, 1, 6) = <<"f", "a", "l", "s", "e", "/">>
           /\ ParentBuffer = Substituted(last.parent, last.hole, last.repl)
    /\ pc \in {"done", "panic"} /\ src = TryInv(TryInv(Inv(s_load, << <<"x">> >>))) =>
           /\ pc = "done"
           /\ result.ok
           /\ SubSeq(result.value, 1, 11) = <<"t", "r", "u", "e", "/", "f", "a", "l", "s", "e", "/">>

\* C30: TextMacro::apply reaches its fixpoint and returns for every pattern and
\* every list of arguments, also when an argument holds a token such as $1, $0
\* or $#: every call comes to its end.
C30_Returns == <>(tm_pc \in {"done", "panic"})

====
